---- MODULE Spec2Model ----
(***************************************************************************)
(* TrashVision prediction server: run_prediction of                        *)
(* backend/scripts/test_predict.py.  One invocation reads its              *)
(* configuration from the environment, reads the uploaded image, tries     *)
(* the (credential, iteration name) candidates against the classification  *)
(* endpoint and reshapes the first successful response.                    *)
(*                                                                         *)
(* Probabilities are integers in hundredths (50 stands for 0.5).  The      *)
(* environment, the image and the upstream service are inputs: the         *)
(* environment is drawn in Init, the outcome of each classification call   *)
(* is drawn when the call is made.  Console output (print) is not state.   *)
(***************************************************************************)
EXTENDS Integers, Sequences, FiniteSets, TLC

VARIABLES env, pc, prediction_endpoint, image_read, key_idx, name_idx,
          calls, outcome, successful_response, prediction_result, result,
          request, invoked, http_response

\* one request to /predict
predict_vars == <<pc, prediction_endpoint, image_read, key_idx, name_idx,
                  calls, outcome, successful_response, prediction_result, result,
                  request, invoked, http_response>>

\* one run of the training uploader (backend/scripts/train_custom_vision.py)
VARIABLES t_pc, t_env, args, fs, remote_project, remote_tags, project, existing_tags,
          cleanup_seen, material_tags, m_idx, handled_nonrecyclable, api_log,
          iteration, polls

train_vars == <<t_pc, t_env, args, fs, remote_project, remote_tags, project, existing_tags,
                cleanup_seen, material_tags, m_idx, handled_nonrecyclable, api_log,
                iteration, polls>>

\* several invocations of run_prediction at once
VARIABLES frames

conc_vars == <<frames>>

vars == <<env, predict_vars, train_vars, conc_vars>>

(* ------------------------------ bounds --------------------------------- *)

\* longest prediction list an upstream response carries
MaxPreds == 3

\* most files directly inside one folder of the data directory
MaxFiles == 2

\* most status polls of the training wait loop in one run
MaxPolls == 2

(* ------------------------------ values --------------------------------- *)

\* Python's None as the value of an unset environment variable
None == "None"

\* Python's None as the value of a local that holds no object yet
Nil == [nil |-> TRUE]

\* os.getenv values: unset, set to the empty string, set to a value
PredictionKeys == {None, "", "pk"}
TrainingKeys == {None, "", "tk"}
Endpoints == {None, "https://cv", "https://cv/"}
ProjectIds == {None, "proj"}
PublishedNameEnv == {None, "RecycleSmart"}

\* status codes the classification endpoint answers with
StatusCodes == {200, 204, 401, 404}

\* tag names and probabilities (hundredths) of upstream predictions
TagNames == {"Recyclable", "Non-Recyclable", "recyclable plastic"}
Probabilities == {50, 51, 90}
Predictions == [tagName : TagNames, probability : Probabilities]

RECURSIVE SeqsUpTo(_, _)
SeqsUpTo(S, n) ==
    IF n = 0 THEN {<<>>}
    ELSE LET shorter == SeqsUpTo(S, n - 1)
         IN  shorter \cup {Append(s, x) : s \in {t \in shorter : Len(t) = n - 1}, x \in S}

\* body of a 200 response: a JSON object with a 'predictions' list, a JSON
\* object without one, or text that response.json() or the loop over the
\* predictions cannot process
Malformed == [json |-> "malformed"]
NoPredictions == [json |-> "object"]
WithPredictions(ps) == [json |-> "object", predictions |-> ps]
Bodies == {Malformed, NoPredictions} \cup {WithPredictions(ps) : ps \in SeqsUpTo(Predictions, MaxPreds)}

(* --------------------------- pure helpers ------------------------------ *)

\* Python truthiness of a str-or-None
Truthy(v) == v # None /\ v # ""

\* os.getenv('PUBLISHED_NAME', 'trashvision-v1')
published_name == IF env.PUBLISHED_NAME = None THEN "trashvision-v1" ELSE env.PUBLISHED_NAME

\* variant: the configured name tried after the first fallback name
iteration_names_fallback_first == <<"RecycleSmart-Prediction", published_name, "RecycleSmart">>

iteration_names_to_try == <<published_name, "RecycleSmart-Prediction", "RecycleSmart">>

keys_to_try == << [key_type |-> "Prediction-Key", api_key |-> env.PREDICTION_KEY],
                  [key_type |-> "Training-Key", api_key |-> env.TRAINING_KEY] >>

\* variant: the prediction key not counted as required
ConfigComplete_KeyOptional == /\ Truthy(env.PREDICTION_ENDPOINT)
                              /\ Truthy(env.PROJECT_ID)

\* all([prediction_key, prediction_endpoint, project_id])
ConfigComplete == /\ Truthy(env.PREDICTION_KEY)
                  /\ Truthy(env.PREDICTION_ENDPOINT)
                  /\ Truthy(env.PROJECT_ID)

\* str.rstrip('/') on the endpoints of the model
RStripSlash(e) == IF e = "https://cv/" THEN "https://cv" ELSE e

\* the request issued for the current candidate, logged with whether it
\* was answered with status 200
CurrentCall(answered_200) ==
    [key_type |-> keys_to_try[key_idx].key_type,
     api_key |-> keys_to_try[key_idx].api_key,
     iteration_name |-> iteration_names_to_try[name_idx],
     url |-> prediction_endpoint \o "/customvision/v3.0/Prediction/" \o env.PROJECT_ID
             \o "/classify/iterations/" \o iteration_names_to_try[name_idx] \o "/image",
     answered_200 |-> answered_200]

\* the multipart request received by /predict: without an 'image' file
\* field, with one whose filename is empty, with an image file
Requests == { [has_image |-> FALSE],
              [has_image |-> TRUE, filename |-> ""],
              [has_image |-> TRUE, filename |-> "photo.jpg"] }

\* variant: the filename of the image not looked at
HasNamedImage_AnyName(req) == req.has_image

\* lines 220 and 224: the request carries an image file with a name
HasNamedImage(req) == req.has_image /\ req.filename # ""

\* jsonify(body), status 200 unless the view returns one
Jsonify(body) == [status_code |-> 200, json |-> body]

\* requests.Response.__bool__ is Response.ok: status below 400
ResponseTruthy(r) == r # Nil /\ r.status_code < 400

(* ------------------------------ state ---------------------------------- *)

\* the training uploader is not run
TrainerIdle ==
    /\ t_pc = "idle"
    /\ t_env = Nil
    /\ args = Nil
    /\ fs = Nil
    /\ remote_project = FALSE
    /\ remote_tags = {}
    /\ project = Nil
    /\ existing_tags = {}
    /\ cleanup_seen = {}
    /\ material_tags = <<>>
    /\ m_idx = 1
    /\ handled_nonrecyclable = FALSE
    /\ api_log = <<>>
    /\ iteration = Nil
    /\ polls = 0

\* no request to /predict is served
PredictIdle ==
    /\ pc = "idle"
    /\ prediction_endpoint = None
    /\ image_read = FALSE
    /\ key_idx = 1
    /\ name_idx = 1
    /\ calls = <<>>
    /\ outcome = Nil
    /\ successful_response = Nil
    /\ prediction_result = Nil
    /\ result = Nil
    /\ request = Nil
    /\ invoked = FALSE
    /\ http_response = Nil

Init ==
    /\ env \in [PREDICTION_KEY : PredictionKeys, TRAINING_KEY : TrainingKeys,
                PREDICTION_ENDPOINT : Endpoints, PROJECT_ID : ProjectIds,
                PUBLISHED_NAME : PublishedNameEnv]
    /\ pc = "start"
    /\ prediction_endpoint = None
    /\ image_read = FALSE
    /\ key_idx = 1
    /\ name_idx = 1
    /\ calls = <<>>
    /\ outcome = Nil
    /\ successful_response = Nil
    /\ prediction_result = Nil
    /\ result = Nil
    /\ request \in Requests
    /\ invoked = FALSE
    /\ http_response = Nil
    /\ TrainerIdle
    /\ frames = <<>>

(* --------------------------- request handler --------------------------- *)

\* lines 220-225: no image field, or an image with an empty filename
RejectRequest ==
    /\ ~invoked
    /\ http_response = Nil
    /\ ~HasNamedImage(request)
    /\ http_response' = [status_code |-> 400,
                         json |-> [error |-> IF request.has_image THEN "No image selected"
                                             ELSE "No image uploaded"]]
    /\ UNCHANGED <<train_vars, conc_vars, env, pc, prediction_endpoint, image_read, key_idx, name_idx, calls, outcome,
                   successful_response, prediction_result, result, request, invoked>>

\* lines 223-227: run_prediction is called with the uploaded file
InvokePrediction ==
    /\ ~invoked
    /\ http_response = Nil
    /\ HasNamedImage(request)
    /\ invoked' = TRUE
    /\ UNCHANGED <<train_vars, conc_vars, env, pc, prediction_endpoint, image_read, key_idx, name_idx, calls, outcome,
                   successful_response, prediction_result, result, request, http_response>>

(* ----------------------------- resolver -------------------------------- *)

\* lines 79-87: required configuration missing
ConfigError ==
    /\ invoked
    /\ pc = "start"
    /\ ~ConfigComplete
    /\ result' = [error |-> "Missing required environment variables: PREDICTION_KEY, ENDPOINT, PROJECT_ID"]
    /\ http_response' = Jsonify(result')
    /\ pc' = "done"
    /\ UNCHANGED <<train_vars, conc_vars, env, request, invoked, prediction_endpoint, image_read, key_idx, name_idx, calls, outcome,
                   successful_response, prediction_result>>

\* lines 89-100: endpoint normalised, image read; image.read() may raise
ReadImage ==
    /\ invoked
    /\ pc = "start"
    /\ ConfigComplete
    /\ prediction_endpoint' = RStripSlash(env.PREDICTION_ENDPOINT)
    /\ \E ok \in BOOLEAN :
         IF ok
         THEN /\ image_read' = TRUE
              /\ pc' = "keys"
              /\ result' = result
              /\ http_response' = http_response
         ELSE /\ image_read' = FALSE
              /\ pc' = "done"
              /\ result' = [error |-> "Prediction failed: read"]
              /\ http_response' = Jsonify(result')
    /\ UNCHANGED <<train_vars, conc_vars, env, request, invoked, key_idx, name_idx, calls, outcome, successful_response, prediction_result>>

\* lines 111-113: a credential that is None or empty is skipped
SkipKey ==
    /\ pc = "keys"
    /\ key_idx <= Len(keys_to_try)
    /\ ~Truthy(keys_to_try[key_idx].api_key)
    /\ key_idx' = key_idx + 1
    /\ UNCHANGED <<train_vars, conc_vars, env, request, invoked, http_response, pc, prediction_endpoint, image_read, name_idx, calls, outcome,
                   successful_response, prediction_result, result>>

\* variant: the credential is used without the emptiness test of line 112
EnterKey_Unchecked ==
    /\ pc = "keys"
    /\ key_idx <= Len(keys_to_try)
    /\ name_idx' = 1
    /\ pc' = "names"
    /\ UNCHANGED <<train_vars, conc_vars, env, request, invoked, http_response, prediction_endpoint, image_read, key_idx, calls, outcome,
                   successful_response, prediction_result, result>>

\* lines 115-120: headers built, inner loop over the iteration names starts
EnterKey ==
    /\ pc = "keys"
    /\ key_idx <= Len(keys_to_try)
    /\ Truthy(keys_to_try[key_idx].api_key)
    /\ name_idx' = 1
    /\ pc' = "names"
    /\ UNCHANGED <<train_vars, conc_vars, env, request, invoked, http_response, prediction_endpoint, image_read, key_idx, calls, outcome,
                   successful_response, prediction_result, result>>

\* where the inner loop goes after a failed candidate (continue)
AfterFailure ==
    IF name_idx < Len(iteration_names_to_try)
    THEN /\ name_idx' = name_idx + 1
         /\ pc' = "names"
    ELSE /\ name_idx' = name_idx
         /\ pc' = "keyend"

\* lines 124-129: the call answers 200; break out of the inner loop
ClassifySuccess ==
    /\ pc = "names"
    /\ \E body \in Bodies :
         /\ successful_response' = [status_code |-> 200, body |-> body, call |-> Len(calls) + 1]
         /\ outcome' = [kind |-> "status", status_code |-> 200]
    /\ calls' = Append(calls, CurrentCall(TRUE))
    /\ pc' = "keyend"
    /\ UNCHANGED <<train_vars, conc_vars, env, request, invoked, http_response, prediction_endpoint, image_read, key_idx, name_idx, prediction_result, result>>

\* variant: a rejected call reported to the client at once
ClassifyRejected_Surfaced ==
    /\ pc = "names"
    /\ \E code \in StatusCodes \ {200} :
         outcome' = [kind |-> "status", status_code |-> code]
    /\ calls' = Append(calls, CurrentCall(FALSE))
    /\ result' = [error |-> "Prediction failed: status"]
    /\ http_response' = Jsonify(result')
    /\ pc' = "done"
    /\ UNCHANGED <<train_vars, conc_vars, env, request, invoked, prediction_endpoint, image_read, key_idx, name_idx,
                   successful_response, prediction_result>>

\* lines 130-135: the call answers another status; continue
ClassifyRejected ==
    /\ pc = "names"
    /\ \E code \in StatusCodes \ {200} :
         outcome' = [kind |-> "status", status_code |-> code]
    /\ calls' = Append(calls, CurrentCall(FALSE))
    /\ AfterFailure
    /\ UNCHANGED <<train_vars, conc_vars, env, request, invoked, http_response, prediction_endpoint, image_read, key_idx, successful_response,
                   prediction_result, result>>

\* variant: no inner try, the exception reaches the handler of line 210
ClassifyException_Propagates ==
    /\ pc = "names"
    /\ outcome' = [kind |-> "exception"]
    /\ calls' = Append(calls, CurrentCall(FALSE))
    /\ result' = [error |-> "Prediction failed: request"]
    /\ http_response' = Jsonify(result')
    /\ pc' = "done"
    /\ UNCHANGED <<train_vars, conc_vars, env, request, invoked, prediction_endpoint, image_read, key_idx, name_idx, successful_response,
                   prediction_result>>

\* lines 137-141: requests.post raises (connection error, timeout); continue
ClassifyException ==
    /\ pc = "names"
    /\ outcome' = [kind |-> "exception"]
    /\ calls' = Append(calls, CurrentCall(FALSE))
    /\ AfterFailure
    /\ UNCHANGED <<train_vars, conc_vars, env, request, invoked, http_response, prediction_endpoint, image_read, key_idx, successful_response,
                   prediction_result, result>>

\* variant: the key loop is not left on a working response
KeyLoopEnd_NeverBreaks ==
    /\ pc = "keyend"
    /\ pc' = "keys"
    /\ key_idx' = key_idx + 1
    /\ UNCHANGED <<train_vars, conc_vars, env, request, invoked, http_response, prediction_endpoint, image_read, name_idx, calls, outcome,
                   successful_response, prediction_result, result>>

\* lines 143-145: after the inner loop, leave the key loop on a working response
KeyLoopEnd ==
    /\ pc = "keyend"
    /\ IF ResponseTruthy(successful_response)
       THEN /\ pc' = "process"
            /\ key_idx' = key_idx
       ELSE /\ pc' = "keys"
            /\ key_idx' = key_idx + 1
    /\ UNCHANGED <<train_vars, conc_vars, env, request, invoked, http_response, prediction_endpoint, image_read, name_idx, calls, outcome,
                   successful_response, prediction_result, result>>

\* line 111: the key loop is exhausted
KeysExhausted ==
    /\ pc = "keys"
    /\ key_idx > Len(keys_to_try)
    /\ pc' = "process"
    /\ UNCHANGED <<train_vars, conc_vars, env, request, invoked, http_response, prediction_endpoint, image_read, key_idx, name_idx, calls, outcome,
                   successful_response, prediction_result, result>>

(* ---------------------------- normaliser ------------------------------- *)

\* line 163: the confidence floor, in hundredths
ConfidenceFloor == 50

\* str.lower() on the tag names of the model
Lower(tag) ==
    CASE tag = "Recyclable" -> "recyclable"
      [] tag = "Non-Recyclable" -> "non-recyclable"
      [] tag = "Nonrecyclable" -> "nonrecyclable"
      [] tag = "Glass" -> "glass"
      [] tag = "Plastic" -> "plastic"
      [] tag = "Misc" -> "misc"
      [] tag = "OldTag" -> "oldtag"
      [] OTHER -> tag

\* variant: p inserted in front of the elements of equal probability
RECURSIVE InsertDesc_BeforeEquals(_, _)
InsertDesc_BeforeEquals(sorted, p) ==
    IF sorted = <<>> THEN <<p>>
    ELSE IF Head(sorted).probability > p.probability
         THEN <<Head(sorted)>> \o InsertDesc_BeforeEquals(Tail(sorted), p)
         ELSE <<p>> \o sorted

\* list.sort(key=probability, reverse=True): a stable sort, elements of
\* equal probability keep their order.  Insert p behind every element whose
\* probability is at least p's.
RECURSIVE InsertDesc(_, _)
InsertDesc(sorted, p) ==
    IF sorted = <<>> THEN <<p>>
    ELSE IF Head(sorted).probability >= p.probability
         THEN <<Head(sorted)>> \o InsertDesc(Tail(sorted), p)
         ELSE <<p>> \o sorted

RECURSIVE SortByProbabilityDesc(_)
SortByProbabilityDesc(ps) ==
    IF ps = <<>> THEN <<>>
    ELSE InsertDesc(SortByProbabilityDesc(SubSeq(ps, 1, Len(ps) - 1)), ps[Len(ps)])

\* variant: the floor taken as an inclusive bound
ClearsFloor_Inclusive(pred) == pred.probability >= ConfidenceFloor

\* line 163: only predictions above the floor are reported
ClearsFloor(pred) == pred.probability > ConfidenceFloor

\* variant: the tag only has to contain the word
IsRecyclable_Contains(pred) ==
    Lower(pred.tagName) \in {"recyclable", "non-recyclable", "recyclable plastic"}

\* line 164
IsRecyclable(pred) == Lower(pred.tagName) = "recyclable"

\* lines 166-170
Detection(pred) == [type |-> Lower(pred.tagName),
                    confidence |-> pred.probability,
                    recyclable |-> IsRecyclable(pred)]

\* variant: the sentence built from the lower-cased tag
Recommendation_LowerCase(pred) ==
    IF IsRecyclable(pred)
    THEN Lower(pred.tagName) \o " item can be placed in recycling bin"
    ELSE Lower(pred.tagName) \o " item should go in general waste"

\* lines 173-176
Recommendation(pred) ==
    IF IsRecyclable(pred)
    THEN pred.tagName \o " item can be placed in recycling bin"
    ELSE pred.tagName \o " item should go in general waste"

\* lines 162-176: the loop over the (sorted) predictions
DetectedItems(predictions) ==
    LET kept == SelectSeq(predictions, ClearsFloor)
    IN  [i \in 1..Len(kept) |-> Detection(kept[i])]

Recommendations(predictions) ==
    LET kept == SelectSeq(predictions, ClearsFloor)
    IN  [i \in 1..Len(kept) |-> Recommendation(kept[i])]

UnknownItem == [type |-> "unknown", confidence |-> 0, recyclable |-> FALSE]
UnknownRecommendation == "Unable to classify item. Please check local recycling guidelines."

\* variant: the default item added without its recommendation
WithDefault_ItemOnly(detected_items, recommendations) ==
    IF detected_items = <<>>
    THEN [detected_items |-> Append(detected_items, [type |-> "unknown", confidence |-> 0, recyclable |-> FALSE]),
          recommendations |-> recommendations]
    ELSE [detected_items |-> detected_items, recommendations |-> recommendations]

\* lines 178-185: default response when nothing cleared the floor
WithDefault(detected_items, recommendations) ==
    IF detected_items = <<>>
    THEN [detected_items |-> Append(detected_items, UnknownItem),
          recommendations |-> Append(recommendations, UnknownRecommendation)]
    ELSE [detected_items |-> detected_items, recommendations |-> recommendations]

\* lines 156-160: the parsed JSON object after predictions.sort(), which
\* sorts the list held by prediction_result in place
SortedInPlace(parsed) ==
    IF "predictions" \in DOMAIN parsed
    THEN [parsed EXCEPT !.predictions = SortByProbabilityDesc(parsed.predictions)]
    ELSE parsed

\* prediction_result.get('predictions', [])
GetPredictions(parsed) ==
    IF "predictions" \in DOMAIN parsed THEN parsed.predictions ELSE <<>>

\* lines 148-202 and 210-213: a 200 response is parsed and reshaped; an
\* exception while doing so is reported by the outer handler
ProcessResponse ==
    /\ pc = "process"
    /\ ResponseTruthy(successful_response)
    /\ successful_response.status_code = 200
    /\ IF successful_response.body = Malformed
       THEN /\ prediction_result' = prediction_result
            /\ result' = [error |-> "Prediction failed: response"]
       ELSE LET parsed == SortedInPlace(successful_response.body)
                items == WithDefault(DetectedItems(GetPredictions(parsed)),
                                     Recommendations(GetPredictions(parsed)))
            IN  /\ prediction_result' = parsed
                /\ result' = [detected_items |-> items.detected_items,
                              recommendations |-> items.recommendations,
                              raw_predictions |-> GetPredictions(parsed)]
    /\ http_response' = Jsonify(result')
    /\ pc' = "done"
    /\ UNCHANGED <<train_vars, conc_vars, env, request, invoked, prediction_endpoint, image_read, key_idx, name_idx, calls, outcome,
                   successful_response>>

\* variant: exhaustion reported as a summary without items
ReturnNoWorkingIteration_EmptySummary ==
    /\ pc = "process"
    /\ ~(ResponseTruthy(successful_response) /\ successful_response.status_code = 200)
    /\ result' = [detected_items |-> <<>>, recommendations |-> <<>>, raw_predictions |-> <<>>]
    /\ http_response' = Jsonify(result')
    /\ pc' = "done"
    /\ UNCHANGED <<train_vars, conc_vars, env, request, invoked, prediction_endpoint, image_read, key_idx, name_idx, calls, outcome,
                   successful_response, prediction_result>>

\* variant: only the configured name reported as tried
ReturnNoWorkingIteration_PrimaryOnly ==
    /\ pc = "process"
    /\ ~(ResponseTruthy(successful_response) /\ successful_response.status_code = 200)
    /\ result' = [error |-> "No working iteration found. Check your Azure Custom Vision project.",
                  tried_iterations |-> <<published_name>>,
                  suggestion |-> "Go to Azure Custom Vision portal > Performance tab > check your published iteration name"]
    /\ http_response' = Jsonify(result')
    /\ pc' = "done"
    /\ UNCHANGED <<train_vars, conc_vars, env, request, invoked, prediction_endpoint, image_read, key_idx, name_idx, calls, outcome,
                   successful_response, prediction_result>>

\* lines 203-209: no candidate worked
ReturnNoWorkingIteration ==
    /\ pc = "process"
    /\ ~(ResponseTruthy(successful_response) /\ successful_response.status_code = 200)
    /\ result' = [error |-> "No working iteration found. Check your Azure Custom Vision project.",
                  tried_iterations |-> iteration_names_to_try,
                  suggestion |-> "Go to Azure Custom Vision portal > Performance tab > check your published iteration name"]
    /\ http_response' = Jsonify(result')
    /\ pc' = "done"
    /\ UNCHANGED <<train_vars, conc_vars, env, request, invoked, prediction_endpoint, image_read, key_idx, name_idx, calls, outcome,
                   successful_response, prediction_result>>

Next ==
    \/ RejectRequest
    \/ InvokePrediction
    \/ ConfigError
    \/ ReadImage
    \/ SkipKey
    \/ EnterKey
    \/ ClassifySuccess
    \/ ClassifyRejected
    \/ ClassifyException
    \/ KeyLoopEnd
    \/ KeysExhausted
    \/ ProcessResponse
    \/ ReturnNoWorkingIteration

Spec == Init /\ [][Next]_vars

(***************************************************************************)
(* Training uploader: main of backend/scripts/train_custom_vision.py.      *)
(* The environment, the command line, the folders under the data           *)
(* directory and the project held by the service are inputs drawn in       *)
(* InitTrain.  A folder is known by its path and the number of files       *)
(* directly inside it (-1: the folder does not exist); a file is the pair  *)
(* of its folder and its index; a tag is known by its name.  Folder        *)
(* listings (iterdir) come in the order of the definitions below, except   *)
(* where the order changes what is uploaded.  api_log is the sequence of   *)
(* requests sent through the training client.  SDK calls outside a try     *)
(* block are taken to succeed, except create_tag for a name the project    *)
(* already has.                                                            *)
(***************************************************************************)

Absent == -1

DataDir == "data"
RecyclableDir == "data/Recyclable"
NonrecDir == "data/Nonrecyclable"

\* the subfolders the model knows, in listing order
RecyclableSubdirs == << "Glass", "Plastic" >>
NonrecSubdirs == << "Misc" >>

SubPath(parent, name) == parent \o "/" \o name

Dirs == {DataDir, RecyclableDir, NonrecDir,
         SubPath(RecyclableDir, "Glass"), SubPath(RecyclableDir, "Plastic"),
         SubPath(NonrecDir, "Misc")}

\* Path.name of the folders of the model
BaseName(dir) ==
    CASE dir = SubPath(RecyclableDir, "Glass") -> "Glass"
      [] dir = SubPath(RecyclableDir, "Plastic") -> "Plastic"
      [] dir = SubPath(NonrecDir, "Misc") -> "Misc"
      [] dir = RecyclableDir -> "Recyclable"
      [] dir = NonrecDir -> "Nonrecyclable"
      [] OTHER -> "data"

\* folder layouts: a missing folder has no subfolders
FileSystems ==
    { [d \in Dirs |-> Absent] } \cup
    { [d \in Dirs |->
         CASE d = DataDir -> top
           [] d = RecyclableDir -> IF rec THEN 0 ELSE Absent
           [] d = SubPath(RecyclableDir, "Glass") -> IF rec THEN glass ELSE Absent
           [] d = SubPath(RecyclableDir, "Plastic") -> IF rec THEN plastic ELSE Absent
           [] d = NonrecDir -> non
           [] OTHER -> IF non # Absent THEN misc ELSE Absent] :
        top \in {0, MaxFiles}, rec \in BOOLEAN,
        glass \in Absent..MaxFiles, plastic \in {Absent, MaxFiles},
        non \in {Absent, 0, MaxFiles}, misc \in {Absent, 1, MaxFiles} }

\* environment of the script; the connectivity test of line 32 has fetched
\* ENDPOINT before main runs, so ENDPOINT is set
TrainEnvs == [ENDPOINT : {"https://train"}, TRAINING_KEY : {None, "", "tk"},
              PREDICTION_RESOURCE_ID : {None, "res"}]

\* parsed command line; --min-images defaults to 8, 2 in the model
Arguments == [project_name : {"RecycleSmart"}, publish_name : {"trashvision-v3"},
              dry_run : BOOLEAN, min_images : {2}, batch_size : {1, 2}]

\* tags of the project when it already exists
RemoteTagSets == { {}, {"OldTag"}, {"Nonrecyclable", "Glass"}, {"OldTag", "Nonrecyclable", "Glass"} }

\* statuses the service reports for an iteration
IterationStatuses == {"Training", "Completed", "Failed"}

\* messages of the exceptions train_project raises
TrainErrors == {"Nothing changed since last training", "Not enough images"}

Exists(dir) == fs[dir] # Absent

\* lines 135-136
count_files(dir) == fs[dir]

\* lines 42-49: one entry per file directly inside the folder
collect_images(dir) == [k \in 1..fs[dir] |-> <<dir, k>>]

\* p for p in parent.iterdir() if p.is_dir()
Subdirs(parent, names) ==
    LET paths == [i \in 1..Len(names) |-> SubPath(parent, names[i])]
    IN  SelectSeq(paths, Exists)

\* existing_tags.get(name.lower())
ExistingTag(lower_name) ==
    IF \E t \in existing_tags : Lower(t) = lower_name
    THEN CHOOSE t \in existing_tags : Lower(t) = lower_name
    ELSE None

\* line 121
current_tag_names ==
    {Lower(BaseName(Subdirs(RecyclableDir, RecyclableSubdirs)[i])) :
        i \in 1..Len(Subdirs(RecyclableDir, RecyclableSubdirs))} \cup {"nonrecyclable"}

\* variant: every subfolder taken, whatever it holds
MeetsMinimum_Always(dir) == TRUE

\* lines 143 and 162: count_files(p) >= args.min_images
MeetsMinimum(dir) == count_files(dir) >= args.min_images

\* lines 139-146
recyclable_material_dirs == SelectSeq(Subdirs(RecyclableDir, RecyclableSubdirs), MeetsMinimum)

\* line 162
non_subfolders == SelectSeq(Subdirs(NonrecDir, NonrecSubdirs), MeetsMinimum)

\* lines 150-158 and 165-173: the tag of each folder, created when the
\* project has none of that name
TagsFor(dirs) ==
    [i \in 1..Len(dirs) |->
        [mdir |-> dirs[i],
         tag |-> IF ExistingTag(Lower(BaseName(dirs[i]))) = None
                 THEN BaseName(dirs[i])
                 ELSE ExistingTag(Lower(BaseName(dirs[i])))]]

CreateTagRequests(dirs) ==
    LET NoTagYet(dir) == ExistingTag(Lower(BaseName(dir))) = None
        fresh == SelectSeq(dirs, NoTagYet)
    IN  [i \in 1..Len(fresh) |-> [op |-> "create_tag", name |-> BaseName(fresh[i])]]

\* lines 183-187 and 193-198: the single Nonrecyclable tag for a folder
NonrecTagFor(dir) ==
    << [mdir |-> dir,
        tag |-> IF ExistingTag("nonrecyclable") = None THEN "Nonrecyclable"
                ELSE ExistingTag("nonrecyclable")] >>

CreateNonrecTagRequest ==
    IF ExistingTag("nonrecyclable") = None
    THEN << [op |-> "create_tag", name |-> "Nonrecyclable"] >>
    ELSE <<>>

\* lines 220-223 and 259-262: one create_images_from_files per batch
RECURSIVE UploadRequests(_, _)
UploadRequests(entries, tag) ==
    IF entries = <<>> THEN <<>>
    ELSE LET n == IF Len(entries) < args.batch_size THEN Len(entries) ELSE args.batch_size
         IN  << [op |-> "create_images_from_files", tag |-> tag, files |-> SubSeq(entries, 1, n)] >>
             \o UploadRequests(SubSeq(entries, n + 1, Len(entries)), tag)

\* variant: the wait loop left as soon as the iteration is not 'Training'
TrainingOver_NotTraining(it) == it.status # "Training"

\* line 291: the wait loop runs while the status is not 'Completed'
TrainingOver(it) == it.status = "Completed"

InitTrain ==
    /\ env = [PREDICTION_KEY |-> None, TRAINING_KEY |-> None, PREDICTION_ENDPOINT |-> None,
              PROJECT_ID |-> None, PUBLISHED_NAME |-> None]
    /\ PredictIdle
    /\ frames = <<>>
    /\ t_pc = "start"
    /\ t_env \in TrainEnvs
    /\ args \in Arguments
    /\ fs \in FileSystems
    /\ remote_project \in BOOLEAN
    /\ remote_tags \in (IF remote_project THEN RemoteTagSets ELSE {{}})
    /\ project = Nil
    /\ existing_tags = {}
    /\ cleanup_seen = {}
    /\ material_tags = <<>>
    /\ m_idx = 1
    /\ handled_nonrecyclable = FALSE
    /\ api_log = <<>>
    /\ iteration = Nil
    /\ polls = 0

\* lines 58-64: endpoint or key missing, sys.exit(1)
T_MissingEnv ==
    /\ t_pc = "start"
    /\ ~(Truthy(t_env.ENDPOINT) /\ Truthy(t_env.TRAINING_KEY))
    /\ t_pc' = "exit"
    /\ UNCHANGED <<env, predict_vars, conc_vars, t_env, args, fs, remote_project, remote_tags,
                   project, existing_tags, cleanup_seen, material_tags, m_idx,
                   handled_nonrecyclable, api_log, iteration, polls>>

\* lines 66-91: the project is looked up by name and created when missing
T_FindOrCreateProject ==
    /\ t_pc = "start"
    /\ Truthy(t_env.ENDPOINT) /\ Truthy(t_env.TRAINING_KEY)
    /\ api_log' = api_log \o << [op |-> "get_projects"] >>
                  \o (IF remote_project THEN <<>>
                      ELSE << [op |-> "create_project", name |-> args.project_name] >>)
    /\ remote_project' = TRUE
    /\ project' = [name |-> args.project_name]
    /\ t_pc' = "scan"
    /\ UNCHANGED <<env, predict_vars, conc_vars, t_env, args, fs, remote_tags, existing_tags,
                   cleanup_seen, material_tags, m_idx, handled_nonrecyclable, iteration, polls>>

\* lines 98-102: no data directory, sys.exit(1)
T_NoDataDir ==
    /\ t_pc = "scan"
    /\ ~Exists(DataDir)
    /\ t_pc' = "exit"
    /\ UNCHANGED <<env, predict_vars, conc_vars, t_env, args, fs, remote_project, remote_tags,
                   project, existing_tags, cleanup_seen, material_tags, m_idx,
                   handled_nonrecyclable, api_log, iteration, polls>>

\* lines 104-121: the tags of the project are fetched; listing a missing
\* Recyclable folder raises
T_GetTags ==
    /\ t_pc = "scan"
    /\ Exists(DataDir)
    /\ api_log' = Append(api_log, [op |-> "get_tags"])
    /\ existing_tags' = remote_tags
    /\ t_pc' = IF Exists(RecyclableDir) THEN "cleanup" ELSE "raised"
    /\ UNCHANGED <<env, predict_vars, conc_vars, t_env, args, fs, remote_project, remote_tags,
                   project, cleanup_seen, material_tags, m_idx, handled_nonrecyclable,
                   iteration, polls>>

\* tags of the project that no current folder names
StaleTags == {t \in existing_tags \ cleanup_seen : Lower(t) \notin current_tag_names}

\* lines 122-129: a tag no folder names is deleted; a failing delete is
\* printed and the tag kept
T_DeleteTag ==
    /\ t_pc = "cleanup"
    /\ \E t \in StaleTags :
         /\ api_log' = Append(api_log, [op |-> "delete_tag", name |-> t])
         /\ cleanup_seen' = cleanup_seen \cup {t}
         /\ \E deleted \in BOOLEAN :
              IF deleted
              THEN /\ remote_tags' = remote_tags \ {t}
                   /\ existing_tags' = existing_tags \ {t}
              ELSE UNCHANGED <<remote_tags, existing_tags>>
    /\ UNCHANGED <<env, predict_vars, conc_vars, t_pc, t_env, args, fs, remote_project, project,
                   material_tags, m_idx, handled_nonrecyclable, iteration, polls>>

\* lines 132-199: the folders to upload are chosen by layout and their tags
\* are looked up or created
T_ReconcileTags ==
    /\ t_pc = "cleanup"
    /\ StaleTags = {}
    /\ LET chosen ==
             IF recyclable_material_dirs # <<>>
             THEN [tags |-> TagsFor(recyclable_material_dirs),
                   requests |-> CreateTagRequests(recyclable_material_dirs),
                   handled |-> FALSE]
             ELSE IF ~Exists(NonrecDir)
             THEN [tags |-> <<>>, requests |-> <<>>, handled |-> FALSE]
             ELSE IF non_subfolders # <<>>
             THEN [tags |-> TagsFor(non_subfolders),
                   requests |-> CreateTagRequests(non_subfolders),
                   handled |-> TRUE]
             ELSE IF count_files(NonrecDir) > 0
             THEN [tags |-> NonrecTagFor(NonrecDir), requests |-> CreateNonrecTagRequest,
                   handled |-> TRUE]
             ELSE [tags |-> NonrecTagFor(DataDir), requests |-> CreateNonrecTagRequest,
                   handled |-> TRUE]
       IN  /\ material_tags' = chosen.tags
           /\ api_log' = api_log \o chosen.requests
           /\ remote_tags' = remote_tags \cup {chosen.requests[i].name : i \in 1..Len(chosen.requests)}
           /\ handled_nonrecyclable' = chosen.handled
    /\ m_idx' = 1
    /\ t_pc' = "upload"
    /\ UNCHANGED <<env, predict_vars, conc_vars, t_env, args, fs, remote_project, project,
                   existing_tags, cleanup_seen, iteration, polls>>

\* lines 203-229: the images of one chosen folder are uploaded in batches,
\* unless the folder holds too few or this is a dry run
T_UploadMaterial ==
    /\ t_pc = "upload"
    /\ m_idx <= Len(material_tags)
    /\ LET entries == collect_images(material_tags[m_idx].mdir)
       IN  api_log' = IF Len(entries) < args.min_images \/ args.dry_run
                      THEN api_log
                      ELSE api_log \o UploadRequests(entries, material_tags[m_idx].tag)
    /\ m_idx' = m_idx + 1
    /\ UNCHANGED <<env, predict_vars, conc_vars, t_pc, t_env, args, fs, remote_project,
                   remote_tags, project, existing_tags, cleanup_seen, material_tags,
                   handled_nonrecyclable, iteration, polls>>

\* lines 237-245: the images under Nonrecyclable; the listing stops at the
\* first plain file, so the subfolders listed after it are left out
NonEntries(subdirs_first) ==
    IF ~Exists(NonrecDir) THEN <<>>
    ELSE LET subs == Subdirs(NonrecDir, NonrecSubdirs)
             from_subs == IF subs = <<>> THEN <<>> ELSE collect_images(subs[1])
         IN  IF count_files(NonrecDir) = 0 THEN from_subs
             ELSE IF subdirs_first THEN from_subs \o collect_images(NonrecDir)
             ELSE collect_images(NonrecDir)

\* lines 231-267: the Nonrecyclable tag is looked up or created and the
\* images under Nonrecyclable are uploaded with it, unless this is a dry run
T_UploadNonrecyclable ==
    /\ t_pc = "upload"
    /\ m_idx > Len(material_tags)
    /\ \E subdirs_first \in BOOLEAN, accepted \in BOOLEAN :
         LET tag == IF ExistingTag("nonrecyclable") = None THEN "Nonrecyclable"
                    ELSE ExistingTag("nonrecyclable")
             non_entries == NonEntries(subdirs_first)
             duplicate == ExistingTag("nonrecyclable") = None /\ "Nonrecyclable" \in remote_tags
         IN  /\ accepted \/ duplicate
             /\ IF accepted
                THEN /\ api_log' = api_log \o CreateNonrecTagRequest
                                   \o (IF args.dry_run THEN <<>> ELSE UploadRequests(non_entries, tag))
                     /\ remote_tags' = remote_tags \cup {tag}
                     /\ t_pc' = "train"
                ELSE /\ api_log' = api_log \o CreateNonrecTagRequest
                     /\ remote_tags' = remote_tags
                     /\ t_pc' = "raised"
    /\ UNCHANGED <<env, predict_vars, conc_vars, t_env, args, fs, remote_project, project,
                   existing_tags, cleanup_seen, material_tags, m_idx, handled_nonrecyclable,
                   iteration, polls>>

\* lines 270-278 and 287-288: train_project returns the new iteration
T_TrainStarted ==
    /\ t_pc = "train"
    /\ \E status \in IterationStatuses :
         iteration' = [id |-> "new", status |-> status]
    /\ api_log' = api_log \o << [op |-> "get_tags"],
                               [op |-> "get_tagged_images", tags |-> remote_tags],
                               [op |-> "train_project"] >>
    /\ t_pc' = "wait"
    /\ UNCHANGED <<env, predict_vars, conc_vars, t_env, args, fs, remote_project, remote_tags,
                   project, existing_tags, cleanup_seen, material_tags, m_idx,
                   handled_nonrecyclable, polls>>

\* lines 279-285: train_project raises; the last iteration is fetched and
\* the exception raised again
T_TrainRaises ==
    /\ t_pc = "train"
    /\ \E message \in TrainErrors :
         api_log' = api_log \o << [op |-> "get_tags"],
                                  [op |-> "get_tagged_images", tags |-> remote_tags],
                                  [op |-> "train_project", error |-> message],
                                  [op |-> "get_iterations"] >>
    /\ iteration' = [id |-> "last", status |-> "Completed"]
    /\ t_pc' = "raised"
    /\ UNCHANGED <<env, predict_vars, conc_vars, t_env, args, fs, remote_project, remote_tags,
                   project, existing_tags, cleanup_seen, material_tags, m_idx,
                   handled_nonrecyclable, polls>>

\* lines 291-294: the status is polled until it is 'Completed'
T_Poll ==
    /\ t_pc = "wait"
    /\ ~TrainingOver(iteration)
    /\ polls < MaxPolls
    /\ \E status \in IterationStatuses :
         iteration' = [iteration EXCEPT !.status = status]
    /\ api_log' = Append(api_log, [op |-> "get_iteration"])
    /\ polls' = polls + 1
    /\ UNCHANGED <<env, predict_vars, conc_vars, t_pc, t_env, args, fs, remote_project,
                   remote_tags, project, existing_tags, cleanup_seen, material_tags, m_idx,
                   handled_nonrecyclable>>

\* lines 295-303: the iteration is published under --publish-name
T_Publish ==
    /\ t_pc = "wait"
    /\ TrainingOver(iteration)
    /\ Truthy(t_env.PREDICTION_RESOURCE_ID)
    /\ api_log' = Append(api_log, [op |-> "publish_iteration", iteration |-> iteration,
                                   name |-> args.publish_name])
    /\ t_pc' = "done"
    /\ UNCHANGED <<env, predict_vars, conc_vars, t_env, args, fs, remote_project, remote_tags,
                   project, existing_tags, cleanup_seen, material_tags, m_idx,
                   handled_nonrecyclable, iteration, polls>>

\* lines 304-305: no prediction resource id, nothing is published
T_SkipPublish ==
    /\ t_pc = "wait"
    /\ TrainingOver(iteration)
    /\ ~Truthy(t_env.PREDICTION_RESOURCE_ID)
    /\ t_pc' = "done"
    /\ UNCHANGED <<env, predict_vars, conc_vars, t_env, args, fs, remote_project, remote_tags,
                   project, existing_tags, cleanup_seen, material_tags, m_idx,
                   handled_nonrecyclable, api_log, iteration, polls>>

NextTrain ==
    \/ T_MissingEnv
    \/ T_FindOrCreateProject
    \/ T_NoDataDir
    \/ T_GetTags
    \/ T_DeleteTag
    \/ T_ReconcileTags
    \/ T_UploadMaterial
    \/ T_UploadNonrecyclable
    \/ T_TrainStarted
    \/ T_TrainRaises
    \/ T_Poll
    \/ T_Publish
    \/ T_SkipPublish

SpecTrain == InitTrain /\ [][NextTrain]_vars

(***************************************************************************)
(* Concurrent requests: one invocation of run_prediction per inbound HTTP  *)
(* request, each on its own thread.  An invocation runs in a frame that    *)
(* holds its position and its local variables; os.environ is the only      *)
(* object the invocations have in common and run_prediction only reads it. *)
(* frames.frame is the store of the frames; frames.issued, frames.received *)
(* and frames.returned record, per invocation, the requests it sent, the   *)
(* answers it got and the value it returned.  The uploaded images are      *)
(* readable here; the steps are those of the resolver and the normaliser   *)
(* above, interleaved at each upstream call and loop step.                 *)
(***************************************************************************)

Invocations == {1, 2}

\* variant: the locals kept in one module-level store used by every invocation
FrameOf_Global(p) == 1

\* lines 59-213: every name run_prediction assigns is a local of the call
FrameOf(p) == p

\* the answers of the upstream service in this specification
ConcurrentBodies == {Malformed,
                     WithPredictions(<< [tagName |-> "Non-Recyclable", probability |-> 51],
                                        [tagName |-> "Recyclable", probability |-> 90] >>)}

Answers == {[kind |-> "exception"], [kind |-> "status", status_code |-> 404]}
           \cup {[kind |-> "status", status_code |-> 200, body |-> b] : b \in ConcurrentBodies}

Answered200(a) == a.kind = "status" /\ a.status_code = 200

\* the environment of the concurrent runs
ConcurrentEnvs == [PREDICTION_KEY : {"pk"}, TRAINING_KEY : {None, "tk"},
                   PREDICTION_ENDPOINT : {"https://cv/"}, PROJECT_ID : {None, "proj"},
                   PUBLISHED_NAME : {None}]

\* the frame of an invocation that has not started
NewFrame == [pc |-> "start", prediction_endpoint |-> None, key_idx |-> 1, name_idx |-> 1,
             successful_response |-> Nil, result |-> Nil]

\* lines 121-122: the request for the candidate a frame is at
CallIn(f) ==
    [key_type |-> keys_to_try[f.key_idx].key_type,
     api_key |-> keys_to_try[f.key_idx].api_key,
     iteration_name |-> iteration_names_to_try[f.name_idx],
     url |-> f.prediction_endpoint \o "/customvision/v3.0/Prediction/" \o env.PROJECT_ID
             \o "/classify/iterations/" \o iteration_names_to_try[f.name_idx] \o "/image"]

\* lines 148-202 and 210-213: the value returned for a 200 response
Summarise(body) ==
    IF body = Malformed
    THEN [error |-> "Prediction failed: response"]
    ELSE LET parsed == SortedInPlace(body)
             items == WithDefault(DetectedItems(GetPredictions(parsed)),
                                  Recommendations(GetPredictions(parsed)))
         IN  [detected_items |-> items.detected_items,
              recommendations |-> items.recommendations,
              raw_predictions |-> GetPredictions(parsed)]

\* lines 203-209
ExhaustionResult ==
    [error |-> "No working iteration found. Check your Azure Custom Vision project.",
     tried_iterations |-> iteration_names_to_try,
     suggestion |-> "Go to Azure Custom Vision portal > Performance tab > check your published iteration name"]

InitConcurrent ==
    /\ env \in ConcurrentEnvs
    /\ PredictIdle
    /\ TrainerIdle
    /\ frames = [frame |-> [s \in Invocations |-> NewFrame],
                 issued |-> [p \in Invocations |-> <<>>],
                 received |-> [p \in Invocations |-> <<>>],
                 returned |-> [p \in Invocations |-> Nil]]

MyFrame(p) == frames.frame[FrameOf(p)]

\* the step of invocation p that leaves its frame as g
StepTo(p, g) ==
    frames' = [frames EXCEPT !.frame[FrameOf(p)] = g]

\* the step of invocation p that returns value from frame g
ReturnFrom(p, g, value) ==
    frames' = [frames EXCEPT !.frame[FrameOf(p)] = [g EXCEPT !.pc = "done", !.result = value],
                             !.returned[p] = value]

Running(p) == frames.returned[p] = Nil

\* lines 79-87
C_ConfigErrorOf(p) ==
    /\ Running(p)
    /\ MyFrame(p).pc = "start"
    /\ ~ConfigComplete
    /\ ReturnFrom(p, MyFrame(p), [error |-> "Missing required environment variables: PREDICTION_KEY, ENDPOINT, PROJECT_ID"])

\* lines 89-109
C_ReadImageOf(p) ==
    /\ Running(p)
    /\ MyFrame(p).pc = "start"
    /\ ConfigComplete
    /\ StepTo(p, [MyFrame(p) EXCEPT !.pc = "keys",
                                    !.prediction_endpoint = RStripSlash(env.PREDICTION_ENDPOINT)])

\* lines 111-113
C_SkipKeyOf(p) ==
    /\ Running(p)
    /\ MyFrame(p).pc = "keys"
    /\ MyFrame(p).key_idx <= Len(keys_to_try)
    /\ ~Truthy(keys_to_try[MyFrame(p).key_idx].api_key)
    /\ StepTo(p, [MyFrame(p) EXCEPT !.key_idx = @ + 1])

\* lines 115-120
C_EnterKeyOf(p) ==
    /\ Running(p)
    /\ MyFrame(p).pc = "keys"
    /\ MyFrame(p).key_idx <= Len(keys_to_try)
    /\ Truthy(keys_to_try[MyFrame(p).key_idx].api_key)
    /\ StepTo(p, [MyFrame(p) EXCEPT !.pc = "names", !.name_idx = 1])

\* lines 121-141: one upstream call and what the inner loop does with its answer
C_ClassifyOf(p) ==
    /\ Running(p)
    /\ MyFrame(p).pc = "names"
    /\ \E a \in Answers :
         LET f == MyFrame(p)
             g == IF Answered200(a)
                  THEN [f EXCEPT !.pc = "keyend", !.successful_response = a]
                  ELSE IF f.name_idx < Len(iteration_names_to_try)
                  THEN [f EXCEPT !.name_idx = @ + 1]
                  ELSE [f EXCEPT !.pc = "keyend"]
         IN  frames' = [frames EXCEPT !.frame[FrameOf(p)] = g,
                                      !.issued[p] = Append(@, CallIn(f)),
                                      !.received[p] = Append(@, a)]

\* lines 143-145
C_KeyLoopEndOf(p) ==
    /\ Running(p)
    /\ MyFrame(p).pc = "keyend"
    /\ StepTo(p, IF ResponseTruthy(MyFrame(p).successful_response)
                 THEN [MyFrame(p) EXCEPT !.pc = "process"]
                 ELSE [MyFrame(p) EXCEPT !.pc = "keys", !.key_idx = @ + 1])

\* line 111: the key loop is exhausted
C_KeysExhaustedOf(p) ==
    /\ Running(p)
    /\ MyFrame(p).pc = "keys"
    /\ MyFrame(p).key_idx > Len(keys_to_try)
    /\ StepTo(p, [MyFrame(p) EXCEPT !.pc = "process"])

\* lines 148-202 and 210-213
C_ProcessResponseOf(p) ==
    /\ Running(p)
    /\ MyFrame(p).pc = "process"
    /\ ResponseTruthy(MyFrame(p).successful_response)
    /\ ReturnFrom(p, MyFrame(p), Summarise(MyFrame(p).successful_response.body))

\* lines 203-209
C_ReturnNoWorkingIterationOf(p) ==
    /\ Running(p)
    /\ MyFrame(p).pc = "process"
    /\ ~ResponseTruthy(MyFrame(p).successful_response)
    /\ ReturnFrom(p, MyFrame(p), ExhaustionResult)

OthersIdle == UNCHANGED <<env, predict_vars, train_vars>>

C_ConfigError == OthersIdle /\ \E p \in Invocations : C_ConfigErrorOf(p)
C_ReadImage == OthersIdle /\ \E p \in Invocations : C_ReadImageOf(p)
C_SkipKey == OthersIdle /\ \E p \in Invocations : C_SkipKeyOf(p)
C_EnterKey == OthersIdle /\ \E p \in Invocations : C_EnterKeyOf(p)
C_Classify == OthersIdle /\ \E p \in Invocations : C_ClassifyOf(p)
C_KeyLoopEnd == OthersIdle /\ \E p \in Invocations : C_KeyLoopEndOf(p)
C_KeysExhausted == OthersIdle /\ \E p \in Invocations : C_KeysExhaustedOf(p)
C_ProcessResponse == OthersIdle /\ \E p \in Invocations : C_ProcessResponseOf(p)
C_ReturnNoWorkingIteration == OthersIdle /\ \E p \in Invocations : C_ReturnNoWorkingIterationOf(p)

NextConcurrent ==
    \/ C_ConfigError
    \/ C_ReadImage
    \/ C_SkipKey
    \/ C_EnterKey
    \/ C_Classify
    \/ C_KeyLoopEnd
    \/ C_KeysExhausted
    \/ C_ProcessResponse
    \/ C_ReturnNoWorkingIteration

SpecConcurrent == InitConcurrent /\ [][NextConcurrent]_vars

(* ------------------------ vocabulary of the claims --------------------- *)

Returned == pc = "done"
IsSummary(r) == "detected_items" \in DOMAIN r
IsError(r) == "error" \in DOMAIN r
NoWorkingIterationError == "No working iteration found. Check your Azure Custom Vision project."
ConfigurationError == "Missing required environment variables: PREDICTION_KEY, ENDPOINT, PROJECT_ID"

\* the candidate of a logged call
CandidateOf(c) == <<c.key_type, c.api_key, c.iteration_name>>

\* the fixed enumeration: credentials outer, iteration names inner
FixedEnumeration ==
    << <<"Prediction-Key", env.PREDICTION_KEY, published_name>>,
       <<"Prediction-Key", env.PREDICTION_KEY, "RecycleSmart-Prediction">>,
       <<"Prediction-Key", env.PREDICTION_KEY, "RecycleSmart">>,
       <<"Training-Key", env.TRAINING_KEY, published_name>>,
       <<"Training-Key", env.TRAINING_KEY, "RecycleSmart-Prediction">>,
       <<"Training-Key", env.TRAINING_KEY, "RecycleSmart">> >>

HasCredential(cand) == cand[2] # None /\ cand[2] # ""
NonEmptyCandidates == SelectSeq(FixedEnumeration, HasCredential)

IsPrefixOfCandidates ==
    /\ Len(calls) <= Len(NonEmptyCandidates)
    /\ \A i \in 1..Len(calls) : CandidateOf(calls[i]) = NonEmptyCandidates[i]

SomeCallSucceeded == \E i \in 1..Len(calls) : calls[i].answered_200
AllCallsFailed == calls # <<>> /\ \A i \in 1..Len(calls) : ~calls[i].answered_200

(* -------------------------------- C1 ----------------------------------- *)

\* C1: once a classification call is answered with the success status (200),
\* no later call is made, and the response processed into the returned value
\* is the response of that call: the successful call is always the last call
\* of the log, the response held is the one of that call, and a returned
\* summary carries that response's predictions.
C1_FirstSuccessIsLastCall ==
    /\ \A i \in 1..Len(calls) : calls[i].answered_200 => i = Len(calls)
    /\ SomeCallSucceeded =>
         /\ successful_response # Nil
         /\ successful_response.call = Len(calls)
    /\ (Returned /\ SomeCallSucceeded) =>
         /\ ~(IsError(result) /\ result.error = NoWorkingIterationError)
         /\ IsSummary(result) =>
              /\ Len(result.raw_predictions) = Len(GetPredictions(successful_response.body))
              /\ {result.raw_predictions[i] : i \in 1..Len(result.raw_predictions)}
                   = {GetPredictions(successful_response.body)[i] :
                        i \in 1..Len(GetPredictions(successful_response.body))}

\* a run whose first candidate succeeded although later candidates exist
C1_Witness ==
    /\ Returned
    /\ IsSummary(result)
    /\ Len(calls) = 1
    /\ calls[1].answered_200
    /\ Len(NonEmptyCandidates) = 6
    /\ Len(result.raw_predictions) = 2

(* -------------------------------- C2 ----------------------------------- *)

NamesTriedWith(key_type) ==
    LET WithKey(c) == c.key_type = key_type
        made == SelectSeq(calls, WithKey)
    IN  [i \in 1..Len(made) |-> made[i].iteration_name]

\* C3: when candidates were attempted and every one failed, the returned
\* value is the 'No working iteration found' error and not a summary, and
\* its tried_iterations lists exactly the iteration names that were
\* attempted, in the order in which they were attempted with each
\* credential.
C3_ExhaustionListsAttemptedNames ==
    (Returned /\ AllCallsFailed) =>
        /\ IsError(result)
        /\ ~IsSummary(result)
        /\ result.error = NoWorkingIterationError
        /\ "tried_iterations" \in DOMAIN result
        /\ {result.tried_iterations[i] : i \in 1..Len(result.tried_iterations)}
             = {calls[i].iteration_name : i \in 1..Len(calls)}
        /\ \A i \in 1..Len(calls) :
             NamesTriedWith(calls[i].key_type) = result.tried_iterations

\* both credentials exhausted
C3_Witness ==
    /\ Returned
    /\ AllCallsFailed
    /\ Len(calls) = 6
    /\ IsError(result)
    /\ published_name = "trashvision-v1"

(* -------------------------------- C4 ----------------------------------- *)

IsFailure(o) == o # Nil /\ (o.kind = "exception" \/ o.status_code # 200)

\* C4: a failed call, by exception or by status, never ends the loop and
\* never raises: the step of a failed call leaves the result unset and moves
\* control to the next candidate of the same credential (or to the end of
\* that credential's names), the same for both kinds of failure; and a run
\* in which every call failed has called every candidate with a credential
\* and returns the exhaustion error.
C4_FailureAdvancesToNextCandidate ==
    /\ [][(Len(calls') = Len(calls) + 1 /\ IsFailure(outcome')) =>
            /\ result' = Nil
            /\ key_idx' = key_idx
            /\ IF name_idx < 3
               THEN pc' = "names" /\ name_idx' = name_idx + 1
               ELSE pc' = "keyend" /\ name_idx' = name_idx]_vars
    /\ []((Returned /\ AllCallsFailed) =>
            /\ Len(calls) = Len(NonEmptyCandidates)
            /\ result.error = NoWorkingIterationError)

\* an exception on a candidate, and the loop standing at the next candidate
C4_Witness ==
    /\ pc = "names"
    /\ outcome # Nil
    /\ outcome.kind = "exception"
    /\ Len(calls) = 4
    /\ name_idx = 2

(* -------------------------------- C5 ----------------------------------- *)

\* no call carries an absent or empty credential, and a returned run has
\* called the candidates with a credential in order up to the first success
\* or to the end
CallsCoverCandidatesWithCredential ==
    /\ \A i \in 1..Len(calls) : calls[i].api_key # None /\ calls[i].api_key # ""
    /\ IsPrefixOfCandidates
    /\ Returned => (Len(calls) = Len(NonEmptyCandidates) \/ SomeCallSucceeded)

ImageReadFailed == IsError(result) /\ result.error = "Prediction failed: read"

\* C5 as stated: for any credential configuration (endpoint and project id
\* given, image readable) the candidates whose credential is non-empty are
\* attempted in order, also when the Prediction-Key is the absent one and a
\* Training-Key is present.
C5_AsStated ==
    (env.PREDICTION_ENDPOINT \notin {None, ""} /\ env.PROJECT_ID \notin {None, ""}
        /\ (Returned => ~ImageReadFailed))
      => CallsCoverCandidatesWithCredential

\* C5 amended: in a run whose required configuration is complete (so the
\* Prediction-Key is non-empty) an absent or empty Training-Key causes no
\* call and the Prediction-Key candidates are attempted in order; a run with
\* an absent or empty Prediction-Key makes no call at all, whatever the
\* Training-Key.
C5_SkippedCredentialMakesNoCall ==
    /\ (ConfigComplete /\ (Returned => ~ImageReadFailed)) => CallsCoverCandidatesWithCredential
    /\ env.PREDICTION_KEY \in {None, ""} => calls = <<>>

\* the Training-Key was skipped after the three Prediction-Key candidates failed
C5_Witness ==
    /\ Returned
    /\ env.TRAINING_KEY = None
    /\ key_idx = 3
    /\ Len(calls) = 3
    /\ AllCallsFailed

(* -------------------------------- C6 ----------------------------------- *)

\* C6: when the prediction key, the endpoint or the project id is missing,
\* the run returns the configuration error at once: no call has been made
\* and the image has not been read, at any moment of the run.
C6_MissingConfigurationReturnsAtOnce ==
    (env.PREDICTION_KEY \in {None, ""} \/ env.PREDICTION_ENDPOINT \in {None, ""}
        \/ env.PROJECT_ID \in {None, ""})
      => /\ calls = <<>>
         /\ ~image_read
         /\ pc \in {"start", "done"}
         /\ Returned => result = [error |-> ConfigurationError]

\* only the prediction key is missing
C6_Witness ==
    /\ Returned
    /\ env.PREDICTION_KEY = ""
    /\ env.TRAINING_KEY = "tk"
    /\ env.PREDICTION_ENDPOINT = "https://cv"
    /\ env.PROJECT_ID = "proj"
    /\ IsError(result)

(* -------------------------------- C7 ----------------------------------- *)

\* C7: raw_predictions of a summary is the prediction list as received from
\* the service, same elements in the same order.
C7_RawPredictionsAsReceived ==
    (Returned /\ IsSummary(result)) =>
        result.raw_predictions = GetPredictions(successful_response.body)

(* -------------------------------- C8 ----------------------------------- *)

\* C8: a received prediction is among the detected items exactly when its
\* probability is strictly above 0.5 (50 hundredths).
C8_FloorIsExclusive ==
    (Returned /\ IsSummary(result)) =>
        \A i \in 1..Len(GetPredictions(successful_response.body)) :
            LET pred == GetPredictions(successful_response.body)[i]
            IN  (pred.probability > 50) <=>
                  \E j \in 1..Len(result.detected_items) :
                      /\ result.detected_items[j].type = Lower(pred.tagName)
                      /\ result.detected_items[j].confidence = pred.probability

\* a prediction at exactly 0.5 left out next to one at 0.51 kept
C8_Witness ==
    /\ Returned
    /\ IsSummary(result)
    /\ \E i \in 1..Len(result.raw_predictions) : result.raw_predictions[i].probability = 50
    /\ Len(result.detected_items) = 1
    /\ result.detected_items[1].confidence = 51

(* -------------------------------- C9 ----------------------------------- *)

\* C9: the detected items of a summary are in non-increasing order of
\* confidence, and the items of one confidence are, in order, the received
\* predictions of that probability.
C9_DetectedItemsSortedStable ==
    (Returned /\ IsSummary(result)) =>
        /\ \A i, j \in 1..Len(result.detected_items) :
             i < j => result.detected_items[i].confidence >= result.detected_items[j].confidence
        /\ \A q \in Probabilities :
             q > 50 =>
               LET AtQ(d) == d.confidence = q
                   ReceivedAtQ(p) == p.probability = q
                   received == SelectSeq(GetPredictions(successful_response.body), ReceivedAtQ)
               IN  SelectSeq(result.detected_items, AtQ)
                     = [i \in 1..Len(received) |->
                          [type |-> Lower(received[i].tagName), confidence |-> q,
                           recyclable |-> Lower(received[i].tagName) = "recyclable"]]

\* a higher prediction received between two equal ones
C9_Witness ==
    /\ Returned
    /\ IsSummary(result)
    /\ Len(result.detected_items) = 3
    /\ GetPredictions(successful_response.body) =
         << [tagName |-> "Non-Recyclable", probability |-> 51],
            [tagName |-> "Recyclable", probability |-> 90],
            [tagName |-> "recyclable plastic", probability |-> 51] >>

(* -------------------------------- C10 ---------------------------------- *)

NothingAboveFloor(body) ==
    \A i \in 1..Len(GetPredictions(body)) : GetPredictions(body)[i].probability <= 50

\* C10: a successful response with no prediction above the floor (all at or
\* below 0.5, an empty list, no list) gives exactly the detection
\* {unknown, 0.0, false} and exactly the fixed recommendation.
C10_UnknownWhenNothingAboveFloor ==
    (Returned /\ SomeCallSucceeded /\ successful_response.body # Malformed
        /\ NothingAboveFloor(successful_response.body)) =>
        /\ IsSummary(result)
        /\ result.detected_items = << [type |-> "unknown", confidence |-> 0, recyclable |-> FALSE] >>
        /\ result.recommendations =
             << "Unable to classify item. Please check local recycling guidelines." >>

\* two predictions, both at the floor
C10_Witness ==
    /\ Returned
    /\ IsSummary(result)
    /\ Len(result.raw_predictions) = 2
    /\ NothingAboveFloor(successful_response.body)
    /\ result.detected_items[1].type = "unknown"

(* -------------------------------- C11 ---------------------------------- *)

ProcessedSuccessfully == SomeCallSucceeded /\ successful_response.body # Malformed

\* C11: a returned value has an 'error' field exactly when no candidate
\* succeeded or configuration or processing failed, and then it has neither
\* detected_items nor recommendations; a successful response with nothing
\* above the floor gives the unknown detection and no 'error' field.
C11_ErrorDistinctFromLowConfidence ==
    Returned =>
        /\ IsError(result) <=> ~ProcessedSuccessfully
        /\ IsError(result) =>
             /\ "detected_items" \notin DOMAIN result
             /\ "recommendations" \notin DOMAIN result
        /\ ~IsError(result) =>
             /\ IsSummary(result)
             /\ NothingAboveFloor(successful_response.body) =>
                  /\ Len(result.detected_items) = 1
                  /\ result.detected_items[1].type = "unknown"

\* a successful response whose only prediction is at the floor
C11_Witness ==
    /\ Returned
    /\ ~IsError(result)
    /\ Len(result.raw_predictions) = 1
    /\ result.raw_predictions[1].probability = 50
    /\ result.detected_items[1].type = "unknown"

(* -------------------------------- C12 ---------------------------------- *)

Responded == http_response # Nil

\* C12 as stated: an error payload that run_prediction hands to the response
\* of /predict is the configuration error or the exhausted-candidates error.
C12_AsStated ==
    (Responded /\ invoked /\ IsError(http_response.json)) =>
        http_response.json.error \in {ConfigurationError, NoWorkingIterationError}

\* C12 amended: an error payload that run_prediction hands to the response
\* of /predict is the configuration error, the exhausted-candidates error or
\* the 'Prediction failed' error of the catch-all handler, and the last one
\* only when reading the image failed (before any call) or when processing
\* the response of a successful call failed; a failed candidate (exception
\* or rejected status) never gives a payload of its own.
C12_ErrorPayloads ==
    (Responded /\ invoked /\ IsError(http_response.json)) =>
        /\ http_response.json.error \in
             {ConfigurationError, NoWorkingIterationError,
              "Prediction failed: read", "Prediction failed: response"}
        /\ http_response.json.error = "Prediction failed: read" => calls = <<>>
        /\ http_response.json.error = "Prediction failed: response" =>
             /\ calls[Len(calls)].answered_200
             /\ successful_response.body = Malformed
        /\ AllCallsFailed => http_response.json.error = NoWorkingIterationError

\* the response to a request whose successful upstream answer was unusable
C12_Witness ==
    /\ Responded
    /\ invoked
    /\ IsError(http_response.json)
    /\ http_response.json.error = "Prediction failed: response"
    /\ Len(calls) = 2

(* -------------------------------- C13 ---------------------------------- *)

\* the tag names of the model in lower case
LowerCased == [t \in TagNames |->
                 IF t = "Recyclable" THEN "recyclable"
                 ELSE IF t = "Non-Recyclable" THEN "non-recyclable"
                 ELSE "recyclable plastic"]

\* C13: every detection built from a received prediction carries that
\* prediction's tag in lower case, and its recyclable flag is true exactly
\* when the lower-cased tag is the whole string 'recyclable'.
C13_LowerCasedExactMatch ==
    (Returned /\ IsSummary(result) /\ ~NothingAboveFloor(successful_response.body)) =>
        \A j \in 1..Len(result.detected_items) :
            LET det == result.detected_items[j]
                received == GetPredictions(successful_response.body)
            IN  /\ \E i \in 1..Len(received) :
                      /\ received[i].probability = det.confidence
                      /\ LowerCased[received[i].tagName] = det.type
                /\ det.recyclable <=> det.type = "recyclable"

\* 'Recyclable' flagged next to 'Non-Recyclable' and 'recyclable plastic' not flagged
C13_Witness ==
    /\ Returned
    /\ IsSummary(result)
    /\ Len(result.detected_items) = 3
    /\ result.detected_items[1] = [type |-> "non-recyclable", confidence |-> 90, recyclable |-> FALSE]
    /\ result.detected_items[2] = [type |-> "recyclable", confidence |-> 51, recyclable |-> TRUE]
    /\ result.detected_items[3] = [type |-> "recyclable plastic", confidence |-> 51, recyclable |-> FALSE]

(* -------------------------------- C14 ---------------------------------- *)

RecyclingSentence(label) == label \o " item can be placed in recycling bin"
GeneralWasteSentence(label) == label \o " item should go in general waste"

\* C14 as stated: in every summary the two lists have the same length and
\* the i-th recommendation is the recycling sentence when the i-th detection
\* is flagged recyclable and the general-waste sentence otherwise, for a
\* label whose lower case is the detection's type.
C14_AsStated ==
    (Returned /\ IsSummary(result)) =>
        /\ Len(result.recommendations) = Len(result.detected_items)
        /\ \A i \in 1..Len(result.detected_items) :
             \E label \in TagNames \cup {"unknown", "Unknown"} :
                result.recommendations[i] =
                    IF result.detected_items[i].recyclable
                    THEN RecyclingSentence(label)
                    ELSE GeneralWasteSentence(label)

\* C14 amended: in every summary the two lists have the same length; when
\* some prediction is above the floor, the i-th recommendation is the
\* recycling sentence (i-th detection flagged) or the general-waste sentence
\* (not flagged) with the original-case tag of a received prediction behind
\* the i-th detection; when none is, the only recommendation is the fixed
\* 'Unable to classify' sentence next to the unknown detection.
C14_RecommendationsParallel ==
    (Returned /\ IsSummary(result)) =>
        /\ Len(result.recommendations) = Len(result.detected_items)
        /\ IF NothingAboveFloor(successful_response.body)
           THEN /\ Len(result.recommendations) = 1
                /\ result.recommendations[1]
                     = "Unable to classify item. Please check local recycling guidelines."
           ELSE \A i \in 1..Len(result.detected_items) :
                  LET det == result.detected_items[i]
                      received == GetPredictions(successful_response.body)
                  IN  \E k \in 1..Len(received) :
                         /\ received[k].probability = det.confidence
                         /\ LowerCased[received[k].tagName] = det.type
                         /\ result.recommendations[i] =
                              IF det.recyclable
                              THEN RecyclingSentence(received[k].tagName)
                              ELSE GeneralWasteSentence(received[k].tagName)

\* one flagged and one unflagged detection with their sentences
C14_Witness ==
    /\ Returned
    /\ IsSummary(result)
    /\ result.recommendations = << "Recyclable item can be placed in recycling bin",
                                   "Non-Recyclable item should go in general waste" >>
    /\ Len(result.detected_items) = 2

(* -------------------------------- C15 ---------------------------------- *)

\* C15: /predict answers 400 exactly when the request has no 'image' file
\* or the file's name is empty, and then run_prediction was not invoked and
\* no call was made; every other request is answered 200 with the value
\* run_prediction returned, errors included.
C15_BadRequestIs400 ==
    /\ (~request.has_image \/ request.filename = "") => (~invoked /\ calls = <<>> /\ result = Nil)
    /\ Responded =>
         /\ http_response.status_code = 400 <=> (~request.has_image \/ request.filename = "")
         /\ http_response.status_code # 400 =>
              /\ http_response.status_code = 200
              /\ invoked
              /\ Returned
              /\ http_response.json = result

\* an image field with an empty filename answered 400
C15_Witness ==
    /\ Responded
    /\ request.has_image
    /\ request.filename = ""
    /\ http_response.status_code = 400
    /\ http_response.json = [error |-> "No image selected"]

\* exhaustion answered 200 with the error body
C15_WitnessExhausted ==
    /\ Responded
    /\ http_response.status_code = 200
    /\ IsError(http_response.json)
    /\ http_response.json.error = NoWorkingIterationError


(* ------------------------ claims about the training uploader ----------- *)

\* the requests that change the project held by the service
MutatingOps == {"create_project", "delete_tag", "create_tag", "create_images_from_files",
                "train_project", "publish_iteration"}

\* positions in api_log of the requests of one operation
OpIndexes(op) == {i \in 1..Len(api_log) : api_log[i].op = op}

TrainerStarted == t_pc # "idle"

\* line 280: "Nothing changed" in str(e)
NothingChanged(message) == message = "Nothing changed since last training"

\* the files named by the upload requests sent so far
UploadedFiles ==
    UNION { {api_log[i].files[k] : k \in 1..Len(api_log[i].files)} :
            i \in OpIndexes("create_images_from_files") }

\* C16 as stated: during a dry run no request that changes the remote
\* project is made (create project, delete tag, create tag, upload images,
\* train, publish).
C16_DryRunChangesNothing ==
    (TrainerStarted /\ args.dry_run) =>
        \A i \in 1..Len(api_log) : api_log[i].op \notin MutatingOps


\* the Recyclable subfolders that hold fewer files than --min-images
SmallRecyclableDirs ==
    {d \in {SubPath(RecyclableDir, RecyclableSubdirs[i]) : i \in 1..Len(RecyclableSubdirs)} :
        Exists(d) /\ count_files(d) < args.min_images}

\* C17: a Recyclable subfolder holding fewer than --min-images files is
\* never included in training: no tag is created for it and none of its
\* images is uploaded.
C17_SmallFolderLeftOut ==
    TrainerStarted =>
        \A d \in SmallRecyclableDirs :
            /\ \A i \in OpIndexes("create_tag") : api_log[i].name # BaseName(d)
            /\ \A f \in UploadedFiles : f[1] # d

\* a run that finished with uploads for Plastic while Glass, holding one
\* file, was left out
C17_Witness ==
    /\ t_pc = "done"
    /\ fs[SubPath(RecyclableDir, "Glass")] = 1
    /\ SubPath(RecyclableDir, "Glass") \in SmallRecyclableDirs
    /\ \E i \in OpIndexes("create_tag") : api_log[i].name = "Plastic"
    /\ \E f \in UploadedFiles : f[1] = SubPath(RecyclableDir, "Plastic")


\* C19 as stated: when train_project fails with a 'Nothing changed' error
\* the script goes on to the wait and publish steps with the most recent
\* iteration; only the other errors stop it.
C19_NothingChangedContinues ==
    TrainerStarted =>
        \A i \in OpIndexes("train_project") :
            ("error" \in DOMAIN api_log[i] /\ NothingChanged(api_log[i].error))
                => t_pc # "raised"

\* the publish request at position i carries a 'Completed' iteration, was
\* sent with a prediction resource id and follows a successful train call
PublishedAfterCompletion(i) ==
    /\ api_log[i].iteration.status = "Completed"
    /\ Truthy(t_env.PREDICTION_RESOURCE_ID)
    /\ \E j \in OpIndexes("train_project") : j < i /\ "error" \notin DOMAIN api_log[j]

\* every request of the first operation precedes every request of the second
Precedes(first, second) ==
    \A i \in OpIndexes(first), j \in OpIndexes(second) : i < j

\* C20: publish_iteration is called at most once per run, only after the
\* iteration's status was observed as 'Completed' and only with a
\* prediction resource id; uploads precede the train call, which precedes
\* the wait loop, which precedes publish.
C20_PublishOnceAfterCompletion ==
    TrainerStarted =>
        /\ Cardinality(OpIndexes("publish_iteration")) <= 1
        /\ \A i \in OpIndexes("publish_iteration") : PublishedAfterCompletion(i)
        /\ Precedes("create_images_from_files", "train_project")
        /\ Precedes("train_project", "get_iteration")
        /\ Precedes("get_iteration", "publish_iteration")
        /\ Precedes("create_images_from_files", "publish_iteration")
        /\ Cardinality(OpIndexes("train_project")) <= 1

\* a run that uploaded, trained, polled until 'Completed' and published
C20_Witness ==
    /\ t_pc = "done"
    /\ OpIndexes("create_images_from_files") # {}
    /\ OpIndexes("get_iteration") # {}
    /\ OpIndexes("publish_iteration") # {}


(* ------------------------ claims about concurrent requests ------------- *)

\* the requests run_prediction sends when no call succeeds, in order:
\* every credential that is set, with each iteration name
AloneCandidates ==
    LET all == [k \in 1..(Len(keys_to_try) * Len(iteration_names_to_try)) |->
                  [key_idx |-> ((k - 1) \div Len(iteration_names_to_try)) + 1,
                   name_idx |-> ((k - 1) % Len(iteration_names_to_try)) + 1,
                   prediction_endpoint |-> RStripSlash(env.PREDICTION_ENDPOINT)]]
        HasKey(c) == Truthy(keys_to_try[c.key_idx].api_key)
        kept == SelectSeq(all, HasKey)
    IN  [i \in 1..Len(kept) |-> CallIn(kept[i])]

\* position of the first answer with status 200, 0 when there is none
FirstSuccess(answers) ==
    IF \E i \in 1..Len(answers) : Answered200(answers[i])
    THEN CHOOSE i \in 1..Len(answers) :
            /\ Answered200(answers[i])
            /\ \A j \in 1..(i - 1) : ~Answered200(answers[j])
    ELSE 0

\* what one invocation running alone sends and returns when the upstream
\* service gives these answers, one per call
AloneRun(answers) ==
    IF ~ConfigComplete
    THEN [calls |-> <<>>,
          result |-> [error |-> "Missing required environment variables: PREDICTION_KEY, ENDPOINT, PROJECT_ID"]]
    ELSE IF FirstSuccess(answers) # 0
    THEN [calls |-> SubSeq(AloneCandidates, 1, FirstSuccess(answers)),
          result |-> Summarise(answers[FirstSuccess(answers)].body)]
    ELSE [calls |-> AloneCandidates, result |-> ExhaustionResult]

ConcurrentStarted == frames # <<>>

\* C18: under any interleaving of two requests, the calls and the result of
\* each are those of the request run alone against the same upstream
\* answers: the invocations share no mutable state.
C18_InterleavingInvisible ==
    ConcurrentStarted =>
        \A p \in Invocations :
            /\ Len(frames.issued[p]) = Len(frames.received[p])
            /\ frames.returned[p] # Nil =>
                 /\ frames.issued[p] = AloneRun(frames.received[p]).calls
                 /\ frames.returned[p] = AloneRun(frames.received[p]).result

\* both requests have returned, one with a summary after a failed call and
\* the other after trying every candidate
C18_Witness ==
    /\ ConcurrentStarted
    /\ frames.returned[1] # Nil /\ frames.returned[2] # Nil
    /\ IsSummary(frames.returned[1])
    /\ Len(frames.issued[1]) = 2
    /\ frames.returned[2] = ExhaustionResult
    /\ Len(frames.issued[2]) = Len(keys_to_try) * Len(iteration_names_to_try)


\* the places where a file is sent: the upload request and the position
\* of the file in its batch
Sendings(file) ==
    {<<i, k>> \in OpIndexes("create_images_from_files") \X (1..Len(api_log)) :
        k <= Len(api_log[i].files) /\ api_log[i].files[k] = file}

\* C21 as stated: in one run each image file found under the data
\* directory is sent to the service at most once, in one upload batch and
\* under one tag, whatever the folder layout.
C21_EachFileSentOnce ==
    TrainerStarted =>
        \A file \in UploadedFiles : Cardinality(Sendings(file)) <= 1

====
